---- MODULE Spec2Model ----
(***************************************************************************)
(* The cart store and catalog page (src/App.tsx), and the detail overlay,  *)
(* checkout form and admin dashboard (src/unnamed/part_000).               *)
(*                                                                         *)
(* Five specifications over one set of variables:                          *)
(*   StoreSpec     the store's five actions called with arbitrary          *)
(*                 arguments (the store's contract, whoever calls it);     *)
(*   Spec          the storefront as wired in App.tsx: the handlers of     *)
(*                 the catalog page and of the checkout view, and the two  *)
(*                 outcomes of the order request;                          *)
(*   CatalogSpec   the product fetch of the mount effect and the search    *)
(*                 and category filter of the catalog page;                *)
(*   CarouselSpec  the product detail overlay (ProductDetailModal): its    *)
(*                 image carousel, timer and effects;                      *)
(*   AdminSpec     the admin dashboard (AdminDashboard): its product and   *)
(*                 order mutations and their in-flight requests.           *)
(* Strings the code trims are sequences of one-character strings.          *)
(***************************************************************************)
EXTENDS Integers, Sequences, FiniteSets, TLC

\* ------------------------------------------------------------------ bounds
NumProducts == 2
MaxQuantity == 2
MaxPending == 2
CatalogSize == 3
MaxTicks == 4
NumOrders == 2
MaxCalls == 2

\* ------------------------------------------------------------- data model
null == "null"

\* null where a Product is expected (selectedProduct: Product | null).
nullProduct == [null |-> TRUE]

ProductIds == 1..NumProducts

\* The images of product i as the catalog fetch formats them (at least one:
\* a product without images gets the placeholder). Products 1, 2, 3 have
\* 3, 1, 2 images.
Images(i) ==
    [k \in 1..(IF i % 3 = 1 THEN 3 ELSE IF i % 3 = 2 THEN 1 ELSE 2) |-> <<i, k>>]

\* Product (the fields the cart, the checkout and the detail overlay read).
Product(i) == [id |-> i, price |-> 15 + 25 * (i % 2), images |-> Images(i)]

Products == {Product(i) : i \in ProductIds}

\* const categories
categories ==
    <<"All", "New Arrivals", "Wardrobe Staples", "Statement Pieces",
      "Streetwear", "Evening Luxe">>

\* A product of the list the backend returns (the fields the filter reads).
Listing(i) ==
    [id |-> i,
     name |-> IF i % 3 = 1 THEN <<"J", "a">>
              ELSE IF i % 3 = 2 THEN <<"b">> ELSE <<"j", "a">>,
     category |-> IF i % 3 = 0 THEN "Evening Luxe" ELSE "Streetwear",
     description |-> IF i % 3 = 1 THEN <<"b">>
                     ELSE IF i % 3 = 2 THEN <<"x", "J", "A">> ELSE <<>>]

SampleCatalog == [i \in 1..CatalogSize |-> Listing(i)]

\* What GET /api/products may answer.
FetchResponses == {SubSeq(SampleCatalog, 1, n) : n \in 0..CatalogSize}

\* What a user types into the search box.
SearchInputs ==
    {<<>>, <<" ">>, <<"j", "a">>, <<" ", "J", "A", " ">>, <<"a">>, <<"b">>, <<"z">>}

FetchError == "Failed to load products. Please try again later."

\* const sizes = ["XS", "S", "M", "L", "XL"]
\* AdminDashboard: a product and an order of its lists, the statuses of the
\* order's select and those picked here, the names typed into the forms, and
\* the messages of failures whose response carries none.
AdminProduct(id, name) == [_id |-> id, name |-> name]
Order(id, status) == [_id |-> id, status |-> status]
statuses == <<"pending", "confirmed", "shipped", "delivered", "cancelled">>
StatusInputs == {"shipped"}
ProductNames == {"b"}
NewProductNames == {"c"}
FileChosen == {TRUE}
AddError == "Failed to add product"
ImageRequired == "At least one image is required"
UpdateError == "Failed to update product"
DeleteError == "Failed to delete product"
StatusError == "Failed to update order status"

sizes == << <<"X", "S">>, <<"S">>, <<"M">>, <<"L">>, <<"X", "L">> >>

ValidationError == "Please fill in all required details before submitting."
SubmitError == "Failed to submit order. Please try again."

\* What a user types into a text field of the form.
FieldInputs == {<<>>, <<" ">>, <<" ", "a", " ">>}

\* String.prototype.trim
IsSpace(c) == c = " "

RECURSIVE trimStart(_)
trimStart(s) ==
    IF s = <<>> THEN <<>>
    ELSE IF IsSpace(Head(s)) THEN trimStart(Tail(s)) ELSE s

RECURSIVE trimEnd(_)
trimEnd(s) ==
    IF s = <<>> THEN <<>>
    ELSE IF IsSpace(s[Len(s)]) THEN trimEnd(SubSeq(s, 1, Len(s) - 1)) ELSE s

trim(s) == trimEnd(trimStart(s))

\* String.prototype.toLowerCase
LowerChar(c) == IF c = "J" THEN "j" ELSE IF c = "A" THEN "a" ELSE c

toLowerCase(s) == [k \in 1..Len(s) |-> LowerChar(s[k])]

\* String.prototype.includes
includes(s, q) ==
    \E i \in 0..(Len(s) - Len(q)) : SubSeq(s, i + 1, i + Len(q)) = q

\* ------------------------------------------------------------------ state
VARIABLES
    items,                \* cart store: CartItem[]
    checkoutOpen,         \* cart store
    confirmationMessage,  \* cart store
    fullName, phone, address, size,   \* CartCheckout form state
    error,                \* CartCheckout: string | null
    submitting,           \* CartCheckout
    pending,              \* handleSubmit invocations awaiting axios.post
    selectedProduct,      \* Store: Product | null
    isModalOpen,          \* Store
    activeIndex,          \* ProductDetailModal
    isAutoplaying,        \* ProductDetailModal
    timers,               \* ProductDetailModal: the live setInterval timers
    products,             \* Store: the fetched product list
    searchTerm,           \* Store
    activeCategory,       \* Store
    loading,              \* Store
    storeError,           \* Store: error, string | null
    fetchProducts,        \* Store: where the mount effect's fetchProducts is
    adminProducts,        \* AdminDashboard: products
    orders,               \* AdminDashboard
    newProduct,           \* AdminDashboard: the "add product" form
    editingProduct,       \* AdminDashboard: Product | null
    adminError,           \* AdminDashboard: error
    isAdding,             \* AdminDashboard
    isEditing,            \* AdminDashboard
    adminPending,         \* AdminDashboard: handlers awaiting their request
    adminCalls,           \* AdminDashboard: requests sent so far
    lastOp                \* the operation that led to this state

store == <<items, checkoutOpen, confirmationMessage>>
form == <<fullName, phone, address, size, error, submitting>>
modal == <<selectedProduct, isModalOpen, activeIndex, isAutoplaying, timers>>
catalog == <<products, searchTerm, activeCategory, loading, storeError, fetchProducts>>
admin == <<adminProducts, orders, newProduct, editingProduct, adminError,
           isAdding, isEditing, adminPending, adminCalls>>
vars == <<items, checkoutOpen, confirmationMessage,
          fullName, phone, address, size, error, submitting, pending,
          selectedProduct, isModalOpen, activeIndex, isAutoplaying, timers,
          products, searchTerm, activeCategory, loading, storeError,
          fetchProducts, adminProducts, orders, newProduct, editingProduct,
          adminError, isAdding, isEditing, adminPending, adminCalls, lastOp>>

\* lastOp: the operation, its product id and number argument (0 when it has
\* none), and whether the cart had a line for that id when it was called.
\* The storefront's handlers other than handleSubmit and its two outcomes are
\* recorded as "ui".
Op(name, id, n, had) == [op |-> name, id |-> id, n |-> n, had |-> had]

\* ------------------------------------------------------------- cart store
HasLine(its, productId) ==
    \E i \in 1..Len(its) : its[i].product.id = productId

addItem_AlwaysAppends(its, product) ==
    Append(its, [product |-> product, quantity |-> 1])

addItem(its, product) ==
    IF \E i \in 1..Len(its) : its[i].product.id = product.id
    THEN [i \in 1..Len(its) |->
             IF its[i].product.id = product.id
             THEN [its[i] EXCEPT !.quantity = @ + 1]
             ELSE its[i]]
    ELSE Append(its, [product |-> product, quantity |-> 1])

IsPositive(item) == item.quantity > 0

updateQuantity_NoFilter(its, productId, quantity) ==
    [i \in 1..Len(its) |->
        IF its[i].product.id = productId
        THEN [its[i] EXCEPT !.quantity = quantity]
        ELSE its[i]]

IsNonNegative(item) == item.quantity >= 0

updateQuantity_KeepsZero(its, productId, quantity) ==
    SelectSeq([i \in 1..Len(its) |->
                  IF its[i].product.id = productId
                  THEN [its[i] EXCEPT !.quantity = quantity]
                  ELSE its[i]],
              IsNonNegative)

updateQuantity_EveryLine(its, productId, quantity) ==
    SelectSeq([i \in 1..Len(its) |-> [its[i] EXCEPT !.quantity = quantity]],
              IsPositive)

updateQuantity(its, productId, quantity) ==
    SelectSeq([i \in 1..Len(its) |->
                  IF its[i].product.id = productId
                  THEN [its[i] EXCEPT !.quantity = quantity]
                  ELSE its[i]],
              IsPositive)

\* The quantity a call of addItem would store stays within the model's bound.
AddFits(its, product) ==
    \A i \in 1..Len(its) :
        its[i].product.id = product.id => its[i].quantity < MaxQuantity

InitStore ==
    /\ items = <<>>
    /\ checkoutOpen = FALSE
    /\ confirmationMessage = null

InitForm ==
    /\ fullName = <<>>
    /\ phone = <<>>
    /\ address = <<>>
    /\ size = sizes[3]
    /\ error = null
    /\ submitting = FALSE

InitModal ==
    /\ selectedProduct = nullProduct
    /\ isModalOpen = FALSE
    /\ activeIndex = 0
    /\ isAutoplaying = TRUE
    /\ timers = <<>>

\* Store's state as it is mounted, before its effect has run.
InitCatalog ==
    /\ products = <<>>
    /\ searchTerm = <<>>
    /\ activeCategory = "All"
    /\ loading = TRUE
    /\ storeError = null
    /\ fetchProducts = "unstarted"

\* Store's state once the product list has been fetched.
CatalogLoaded ==
    /\ products = SampleCatalog
    /\ searchTerm = <<>>
    /\ activeCategory = "All"
    /\ loading = FALSE
    /\ storeError = null
    /\ fetchProducts = "done"

\* AdminDashboard once its mount effect has loaded the products and orders.
InitAdmin ==
    /\ adminProducts = [i \in 1..NumProducts |-> AdminProduct(i, "a")]
    /\ orders = [i \in 1..NumOrders |-> Order(i, "pending")]
    /\ newProduct = [name |-> ""]
    /\ editingProduct = nullProduct
    /\ adminError = ""
    /\ isAdding = FALSE
    /\ isEditing = FALSE
    /\ adminPending = <<>>
    /\ adminCalls = 0

Init ==
    /\ InitStore
    /\ InitForm
    /\ pending = <<>>
    /\ InitModal
    /\ CatalogLoaded
    /\ InitAdmin
    /\ lastOp = Op("init", 0, 0, FALSE)

\* The store's actions, called with any argument.
StoreAddItem ==
    \E product \in Products :
        /\ AddFits(items, product)
        /\ items' = addItem(items, product)
        /\ lastOp' = Op("addItem", product.id, 0, HasLine(items, product.id))
        /\ UNCHANGED admin
        /\ UNCHANGED <<modal, catalog>>
        /\ UNCHANGED <<checkoutOpen, confirmationMessage, form, pending>>

StoreUpdateQuantity ==
    \E productId \in ProductIds, quantity \in (-1)..MaxQuantity :
        /\ items' = updateQuantity(items, productId, quantity)
        /\ lastOp' = Op("updateQuantity", productId, quantity, HasLine(items, productId))
        /\ UNCHANGED admin
        /\ UNCHANGED <<modal, catalog>>
        /\ UNCHANGED <<checkoutOpen, confirmationMessage, form, pending>>

StoreToggleCheckout_Flips ==
    \E isOpen \in BOOLEAN :
        /\ checkoutOpen' = ~checkoutOpen
        /\ lastOp' = Op("toggleCheckout", 0, IF isOpen THEN 1 ELSE 0, FALSE)
        /\ UNCHANGED admin
        /\ UNCHANGED <<modal, catalog>>
        /\ UNCHANGED <<items, confirmationMessage, form, pending>>

StoreToggleCheckout ==
    \E isOpen \in BOOLEAN :
        /\ checkoutOpen' = isOpen
        /\ lastOp' = Op("toggleCheckout", 0, IF isOpen THEN 1 ELSE 0, FALSE)
        /\ UNCHANGED admin
        /\ UNCHANGED <<modal, catalog>>
        /\ UNCHANGED <<items, confirmationMessage, form, pending>>

StoreSetConfirmationMessage ==
    \E message \in {null, "Order confirmed"} :
        /\ confirmationMessage' = message
        /\ lastOp' = Op("setConfirmationMessage", 0, IF message = null THEN 0 ELSE 1, FALSE)
        /\ UNCHANGED admin
        /\ UNCHANGED <<modal, catalog>>
        /\ UNCHANGED <<items, checkoutOpen, form, pending>>

StoreResetCart ==
    /\ items' = <<>>
    /\ lastOp' = Op("resetCart", 0, 0, FALSE)
    /\ UNCHANGED admin
    /\ UNCHANGED <<modal, catalog>>
    /\ UNCHANGED <<checkoutOpen, confirmationMessage, form, pending>>

StoreNext ==
    \/ StoreAddItem
    \/ StoreUpdateQuantity
    \/ StoreToggleCheckout
    \/ StoreSetConfirmationMessage
    \/ StoreResetCart

StoreSpec == Init /\ [][StoreNext]_vars

\* ------------------------------------------------- storefront (Store, App.tsx)
\* handleAddToCart: the "Add" button of a product card.
HandleAddToCart ==
    \E product \in Products :
        /\ AddFits(items, product)
        /\ items' = addItem(items, product)
        /\ checkoutOpen' = TRUE
        /\ confirmationMessage' = null
        /\ lastOp' = Op("ui", 0, 0, FALSE)
        /\ UNCHANGED admin
        /\ UNCHANGED <<modal, catalog>>
        /\ UNCHANGED <<form, pending>>

\* The "Cart (n)" button of the header: toggleCheckout(true).
OpenCart ==
    /\ checkoutOpen' = TRUE
    /\ lastOp' = Op("ui", 0, 0, FALSE)
    /\ UNCHANGED admin
    /\ UNCHANGED <<modal, catalog>>
    /\ UNCHANGED <<items, confirmationMessage, form, pending>>

onSubmitOrder_ResetsCart(details) ==
    /\ items' = <<>>
    /\ UNCHANGED <<checkoutOpen, confirmationMessage>>

\* onSubmitOrder as Store passes it to CartCheckout: an empty function.
onSubmitOrder(details) ==
    UNCHANGED <<items, checkoutOpen, confirmationMessage>>

\* ------------------------------------------------------------ CartCheckout
hasItems == Len(items) > 0

\* The paragraph "Your cart is currently empty..." is rendered.
EmptyCartMessageShown == ~hasItems

RECURSIVE reduce_IgnoresQuantity(_, _)
reduce_IgnoresQuantity(its, total) ==
    IF its = <<>> THEN total
    ELSE reduce_IgnoresQuantity(Tail(its), total + Head(its).product.price)

orderTotal_IgnoresQuantity == reduce_IgnoresQuantity(items, 0)

\* items.reduce((total, item) => total + item.product.price * item.quantity, 0)
RECURSIVE reduce(_, _)
reduce(its, total) ==
    IF its = <<>> THEN total
    ELSE reduce(Tail(its), total + Head(its).product.price * Head(its).quantity)

orderTotal == reduce(items, 0)

\* The submit button's disabled attribute.
SubmitDisabled_IgnoresSubmitting == ~hasItems

SubmitDisabled_IgnoresItems == submitting

SubmitDisabled == ~hasItems \/ submitting

\* !s in JavaScript, for a string s.
Not(s) == s = <<>>

DetailsMissing_Untrimmed ==
    Not(fullName) \/ Not(phone) \/ Not(address) \/ Not(size)

\* The condition of handleSubmit's early return.
DetailsMissing ==
    Not(trim(fullName)) \/ Not(trim(phone)) \/ Not(trim(address)) \/ Not(trim(size))

orderItems_UnitQuantities ==
    [i \in 1..Len(items) |->
        [productId |-> items[i].product.id, quantity |-> 1]]

orderItems ==
    [i \in 1..Len(items) |->
        [productId |-> items[i].product.id, quantity |-> items[i].quantity]]

\* What a handleSubmit invocation holds while it awaits axios.post: the state
\* values its closure captured and the body of the request it sent.
Invocation ==
    [fullName |-> fullName, phone |-> phone, address |-> address, size |-> size,
     body |-> [fullName |-> trim(fullName), phone |-> trim(phone),
               address |-> trim(address), size |-> size, items |-> orderItems]]

Details(inv) ==
    [fullName |-> trim(inv.fullName), phone |-> trim(inv.phone),
     address |-> trim(inv.address), size |-> inv.size]

RemoveAt(seq, k) == SubSeq(seq, 1, k - 1) \o SubSeq(seq, k + 1, Len(seq))

\* The close button: onClose = toggleCheckout(false).
OnClose ==
    /\ checkoutOpen
    /\ checkoutOpen' = FALSE
    /\ lastOp' = Op("ui", 0, 0, FALSE)
    /\ UNCHANGED admin
    /\ UNCHANGED <<modal, catalog>>
    /\ UNCHANGED <<items, confirmationMessage, form, pending>>

\* The "-" button of a line: onUpdateQuantity(id, Math.max(1, quantity - 1)).
DecrementLine ==
    \E i \in 1..Len(items) :
        /\ checkoutOpen
        /\ items' = updateQuantity(items, items[i].product.id,
                                   IF items[i].quantity - 1 > 1
                                   THEN items[i].quantity - 1 ELSE 1)
        /\ lastOp' = Op("ui", 0, 0, FALSE)
        /\ UNCHANGED admin
        /\ UNCHANGED <<modal, catalog>>
        /\ UNCHANGED <<checkoutOpen, confirmationMessage, form, pending>>

\* The "+" button of a line: onUpdateQuantity(id, quantity + 1).
IncrementLine ==
    \E i \in 1..Len(items) :
        /\ checkoutOpen
        /\ items[i].quantity < MaxQuantity
        /\ items' = updateQuantity(items, items[i].product.id, items[i].quantity + 1)
        /\ lastOp' = Op("ui", 0, 0, FALSE)
        /\ UNCHANGED admin
        /\ UNCHANGED <<modal, catalog>>
        /\ UNCHANGED <<checkoutOpen, confirmationMessage, form, pending>>

\* The remove button of a line: onUpdateQuantity(id, 0).
RemoveLine ==
    \E i \in 1..Len(items) :
        /\ checkoutOpen
        /\ items' = updateQuantity(items, items[i].product.id, 0)
        /\ lastOp' = Op("ui", 0, 0, FALSE)
        /\ UNCHANGED admin
        /\ UNCHANGED <<modal, catalog>>
        /\ UNCHANGED <<checkoutOpen, confirmationMessage, form, pending>>

\* The form's controls; each is disabled while submitting.
SetFullName ==
    \E value \in FieldInputs :
        /\ checkoutOpen /\ ~submitting
        /\ fullName' = value
        /\ lastOp' = Op("ui", 0, 0, FALSE)
        /\ UNCHANGED admin
        /\ UNCHANGED <<modal, catalog>>
        /\ UNCHANGED <<store, phone, address, size, error, submitting, pending>>

SetPhone ==
    \E value \in FieldInputs :
        /\ checkoutOpen /\ ~submitting
        /\ phone' = value
        /\ lastOp' = Op("ui", 0, 0, FALSE)
        /\ UNCHANGED admin
        /\ UNCHANGED <<modal, catalog>>
        /\ UNCHANGED <<store, fullName, address, size, error, submitting, pending>>

SetAddress ==
    \E value \in FieldInputs :
        /\ checkoutOpen /\ ~submitting
        /\ address' = value
        /\ lastOp' = Op("ui", 0, 0, FALSE)
        /\ UNCHANGED admin
        /\ UNCHANGED <<modal, catalog>>
        /\ UNCHANGED <<store, fullName, phone, size, error, submitting, pending>>

SetSize ==
    \E k \in 1..Len(sizes) :
        /\ checkoutOpen /\ ~submitting
        /\ size' = sizes[k]
        /\ lastOp' = Op("ui", 0, 0, FALSE)
        /\ UNCHANGED admin
        /\ UNCHANGED <<modal, catalog>>
        /\ UNCHANGED <<store, fullName, phone, address, error, submitting, pending>>

\* handleSubmit up to its await: the form's submit event, which the disabled
\* submit button withholds.
HandleSubmit ==
    /\ checkoutOpen
    /\ ~SubmitDisabled
    /\ lastOp' = Op("handleSubmit", 0, 0, FALSE)
    /\ UNCHANGED admin
    /\ UNCHANGED <<modal, catalog>>
    /\ IF DetailsMissing
       THEN /\ error' = ValidationError
            /\ UNCHANGED <<store, fullName, phone, address, size, submitting, pending>>
       ELSE /\ Len(pending) < MaxPending
            /\ error' = null
            /\ submitting' = TRUE
            /\ pending' = Append(pending, Invocation)
            /\ UNCHANGED <<store, fullName, phone, address, size>>

OrderResolved_ResetsToFirstSize ==
    \E k \in 1..Len(pending) :
        /\ onSubmitOrder(Details(pending[k]))
        /\ fullName' = <<>>
        /\ phone' = <<>>
        /\ address' = <<>>
        /\ size' = sizes[1]
        /\ submitting' = FALSE
        /\ pending' = RemoveAt(pending, k)
        /\ lastOp' = Op("resolved", 0, k, FALSE)
        /\ UNCHANGED admin
        /\ UNCHANGED <<modal, catalog>>
        /\ UNCHANGED error

\* handleSubmit after its await, the request fulfilled (a 2xx response).
OrderResolved ==
    \E k \in 1..Len(pending) :
        /\ onSubmitOrder(Details(pending[k]))
        /\ fullName' = <<>>
        /\ phone' = <<>>
        /\ address' = <<>>
        /\ size' = sizes[3]
        /\ submitting' = FALSE
        /\ pending' = RemoveAt(pending, k)
        /\ lastOp' = Op("resolved", 0, k, FALSE)
        /\ UNCHANGED admin
        /\ UNCHANGED <<modal, catalog>>
        /\ UNCHANGED error

OrderRejected_KeepsSubmitting ==
    \E k \in 1..Len(pending) :
        /\ error' = SubmitError
        /\ pending' = RemoveAt(pending, k)
        /\ lastOp' = Op("rejected", 0, k, FALSE)
        /\ UNCHANGED admin
        /\ UNCHANGED <<modal, catalog>>
        /\ UNCHANGED <<store, fullName, phone, address, size, submitting>>

OrderRejected_ResetsForm ==
    \E k \in 1..Len(pending) :
        /\ error' = SubmitError
        /\ fullName' = <<>>
        /\ phone' = <<>>
        /\ address' = <<>>
        /\ size' = sizes[3]
        /\ submitting' = FALSE
        /\ pending' = RemoveAt(pending, k)
        /\ lastOp' = Op("rejected", 0, k, FALSE)
        /\ UNCHANGED admin
        /\ UNCHANGED <<modal, catalog>>
        /\ UNCHANGED store

\* handleSubmit after its await, the request rejected (a network error or a
\* response that is not 2xx): catch, then finally.
OrderRejected ==
    \E k \in 1..Len(pending) :
        /\ error' = SubmitError
        /\ submitting' = FALSE
        /\ pending' = RemoveAt(pending, k)
        /\ lastOp' = Op("rejected", 0, k, FALSE)
        /\ UNCHANGED admin
        /\ UNCHANGED <<modal, catalog>>
        /\ UNCHANGED <<store, fullName, phone, address, size>>

Next ==
    \/ HandleAddToCart
    \/ OpenCart
    \/ OnClose
    \/ DecrementLine
    \/ IncrementLine
    \/ RemoveLine
    \/ SetFullName
    \/ SetPhone
    \/ SetAddress
    \/ SetSize
    \/ HandleSubmit
    \/ OrderResolved
    \/ OrderRejected

Spec == Init /\ [][Next]_vars

\* ------------------------------------------------- catalog (Store, App.tsx)
filteredProducts_CaseSensitive ==
    LET query == toLowerCase(trim(searchTerm)) IN
    SelectSeq(products,
              LAMBDA product :
                  /\ activeCategory = "All" \/ product.category = activeCategory
                  /\ \/ query = <<>>
                     \/ includes(product.name, query)
                     \/ includes(product.description, query))

filteredProducts ==
    LET query == toLowerCase(trim(searchTerm)) IN
    SelectSeq(products,
              LAMBDA product :
                  /\ activeCategory = "All" \/ product.category = activeCategory
                  /\ \/ query = <<>>
                     \/ includes(toLowerCase(product.name), query)
                     \/ includes(toLowerCase(product.description), query))

\* Store renders the catalog page (neither the loading nor the error screen).
CatalogShown == ~loading /\ storeError = null

\* The mount effect calls fetchProducts, which runs up to its await.
FetchProducts ==
    /\ fetchProducts = "unstarted"
    /\ fetchProducts' = "awaiting"
    /\ loading' = TRUE
    /\ lastOp' = Op("fetchProducts", 0, 0, FALSE)
    /\ UNCHANGED admin
    /\ UNCHANGED <<store, form, pending, modal,
                   products, searchTerm, activeCategory, storeError>>

\* fetchProducts after its await, the list received.
FetchResolved ==
    \E response \in FetchResponses :
        /\ fetchProducts = "awaiting"
        /\ fetchProducts' = "done"
        /\ products' = response
        /\ storeError' = null
        /\ loading' = FALSE
        /\ lastOp' = Op("fetchResolved", 0, 0, FALSE)
        /\ UNCHANGED admin
        /\ UNCHANGED <<store, form, pending, modal, searchTerm, activeCategory>>

\* fetchProducts after its await, the request failed: catch, then finally.
FetchRejected ==
    /\ fetchProducts = "awaiting"
    /\ fetchProducts' = "done"
    /\ storeError' = FetchError
    /\ loading' = FALSE
    /\ lastOp' = Op("fetchRejected", 0, 0, FALSE)
    /\ UNCHANGED admin
    /\ UNCHANGED <<store, form, pending, modal, products, searchTerm, activeCategory>>

\* The search box.
SetSearchTerm ==
    \E value \in SearchInputs :
        /\ CatalogShown
        /\ searchTerm' = value
        /\ lastOp' = Op("ui", 0, 0, FALSE)
        /\ UNCHANGED admin
        /\ UNCHANGED <<store, form, pending, modal,
                       products, activeCategory, loading, storeError, fetchProducts>>

\* The category buttons.
SetActiveCategory ==
    \E k \in 1..Len(categories) :
        /\ CatalogShown
        /\ activeCategory' = categories[k]
        /\ lastOp' = Op("ui", 0, 0, FALSE)
        /\ UNCHANGED admin
        /\ UNCHANGED <<store, form, pending, modal,
                       products, searchTerm, loading, storeError, fetchProducts>>

CatalogInit ==
    /\ InitStore
    /\ InitForm
    /\ pending = <<>>
    /\ InitModal
    /\ InitCatalog
    /\ InitAdmin
    /\ lastOp = Op("init", 0, 0, FALSE)

CatalogNext ==
    \/ FetchProducts
    \/ FetchResolved
    \/ FetchRejected
    \/ SetSearchTerm
    \/ SetActiveCategory

CatalogSpec == CatalogInit /\ [][CatalogNext]_vars

\* ------------------------------------------------------ ProductDetailModal
\* const images = product?.images || []
images == IF selectedProduct = nullProduct THEN <<>> ELSE selectedProduct.images

\* The controls are rendered: the overlay is open on a product.
ModalShown == isModalOpen /\ selectedProduct # nullProduct

\* The previous, next and play/pause buttons are rendered.
NavigationShown == ModalShown /\ Len(images) > 1

AutoplayEffect_NoCleanup(open, autoplaying, length) ==
    IF <<autoplaying, open, length>> = <<isAutoplaying, isModalOpen, Len(images)>>
    THEN timers
    ELSE IF ~open \/ ~autoplaying \/ length <= 1
         THEN timers
         ELSE Append(timers, [length |-> length])

\* The autoplay effect, run for the rendered isOpen, isAutoplaying and
\* images.length: nothing when none of them changed; otherwise the cleanup of
\* the previous run (clearInterval) and, unless it returns early, one
\* setInterval whose callback holds images.length.
AutoplayEffect(open, autoplaying, length) ==
    IF <<autoplaying, open, length>> = <<isAutoplaying, isModalOpen, Len(images)>>
    THEN timers
    ELSE IF ~open \/ ~autoplaying \/ length <= 1
         THEN <<>>
         ELSE <<[length |-> length]>>

\* Consecutive timer ticks so far, up to MaxTicks, and whether they follow
\* the opening of the overlay with nothing in between.
TickOp ==
    IF lastOp.op = "tick"
    THEN Op("tick", 0, IF lastOp.n < MaxTicks THEN lastOp.n + 1 ELSE MaxTicks, lastOp.had)
    ELSE Op("tick", 0, 1, lastOp.op = "handleOpenModal" /\ lastOp.had)

HandleOpenModal_NoReset ==
    \E product \in Products :
        /\ selectedProduct' = product
        /\ isModalOpen' = TRUE
        /\ UNCHANGED <<activeIndex, isAutoplaying>>
        /\ timers' = AutoplayEffect(TRUE, isAutoplaying', Len(product.images))
        /\ lastOp' = Op("handleOpenModal", product.id, activeIndex, ~isModalOpen)
        /\ UNCHANGED admin
        /\ UNCHANGED <<store, form, pending, catalog>>

\* handleOpenModal: the "Details" button of a product card (the cards stay
\* reachable by keyboard while the overlay is open), then the effects: the
\* reset effect runs when isOpen has changed. lastOp.n is the index shown
\* before, lastOp.had whether the overlay was closed.
HandleOpenModal ==
    \E product \in Products :
        /\ selectedProduct' = product
        /\ isModalOpen' = TRUE
        /\ activeIndex' = IF ~isModalOpen THEN 0 ELSE activeIndex
        /\ isAutoplaying' = IF ~isModalOpen THEN TRUE ELSE isAutoplaying
        /\ timers' = AutoplayEffect(TRUE, isAutoplaying', Len(product.images))
        /\ lastOp' = Op("handleOpenModal", product.id, activeIndex, ~isModalOpen)
        /\ UNCHANGED admin
        /\ UNCHANGED <<store, form, pending, catalog>>

\* handleCloseModal: the overlay's close button.
HandleCloseModal ==
    /\ ModalShown
    /\ isModalOpen' = FALSE
    /\ selectedProduct' = nullProduct
    /\ timers' = AutoplayEffect(FALSE, isAutoplaying, 0)
    /\ lastOp' = Op("handleCloseModal", 0, 0, FALSE)
    /\ UNCHANGED admin
    /\ UNCHANGED <<activeIndex, isAutoplaying, store, form, pending, catalog>>

\* The overlay's "Add to Cart" button: onAddToCart (handleAddToCart, then
\* handleCloseModal), then onClose.
ModalAddToCart ==
    /\ ModalShown
    /\ AddFits(items, selectedProduct)
    /\ items' = addItem(items, selectedProduct)
    /\ checkoutOpen' = TRUE
    /\ confirmationMessage' = null
    /\ isModalOpen' = FALSE
    /\ selectedProduct' = nullProduct
    /\ timers' = AutoplayEffect(FALSE, isAutoplaying, 0)
    /\ lastOp' = Op("modalAddToCart", 0, 0, FALSE)
    /\ UNCHANGED admin
    /\ UNCHANGED <<activeIndex, isAutoplaying, form, pending, catalog>>

\* goToSlide (no rendered control calls it).
GoToSlide ==
    \E index \in 0..(Len(images) - 1) :
        /\ NavigationShown
        /\ activeIndex' = index
        /\ isAutoplaying' = FALSE
        /\ timers' = AutoplayEffect(isModalOpen, FALSE, Len(images))
        /\ lastOp' = Op("goToSlide", 0, index, FALSE)
        /\ UNCHANGED admin
        /\ UNCHANGED <<selectedProduct, isModalOpen, store, form, pending, catalog>>

NextSlide_KeepsAutoplay ==
    /\ NavigationShown
    /\ activeIndex' = (activeIndex + 1) % Len(images)
    /\ UNCHANGED <<isAutoplaying, timers>>
    /\ lastOp' = Op("nextSlide", 0, 0, FALSE)
    /\ UNCHANGED admin
    /\ UNCHANGED <<selectedProduct, isModalOpen, store, form, pending, catalog>>

NextSlide ==
    /\ NavigationShown
    /\ activeIndex' = (activeIndex + 1) % Len(images)
    /\ isAutoplaying' = FALSE
    /\ timers' = AutoplayEffect(isModalOpen, FALSE, Len(images))
    /\ lastOp' = Op("nextSlide", 0, 0, FALSE)
    /\ UNCHANGED admin
    /\ UNCHANGED <<selectedProduct, isModalOpen, store, form, pending, catalog>>

PrevSlide_NoWrap ==
    /\ NavigationShown
    /\ activeIndex' = activeIndex - 1
    /\ isAutoplaying' = FALSE
    /\ timers' = AutoplayEffect(isModalOpen, FALSE, Len(images))
    /\ lastOp' = Op("prevSlide", 0, 0, FALSE)
    /\ UNCHANGED admin
    /\ UNCHANGED <<selectedProduct, isModalOpen, store, form, pending, catalog>>

PrevSlide ==
    /\ NavigationShown
    /\ activeIndex' = IF activeIndex = 0 THEN Len(images) - 1 ELSE activeIndex - 1
    /\ isAutoplaying' = FALSE
    /\ timers' = AutoplayEffect(isModalOpen, FALSE, Len(images))
    /\ lastOp' = Op("prevSlide", 0, 0, FALSE)
    /\ UNCHANGED admin
    /\ UNCHANGED <<selectedProduct, isModalOpen, store, form, pending, catalog>>

\* The play/pause button: setIsAutoplaying(!isAutoplaying).
ToggleAutoplay ==
    /\ NavigationShown
    /\ isAutoplaying' = ~isAutoplaying
    /\ timers' = AutoplayEffect(isModalOpen, ~isAutoplaying, Len(images))
    /\ lastOp' = Op("toggleAutoplay", 0, 0, FALSE)
    /\ UNCHANGED admin
    /\ UNCHANGED <<selectedProduct, isModalOpen, activeIndex, store, form, pending, catalog>>

Tick_NoWrap ==
    \E k \in 1..Len(timers) :
        /\ activeIndex' = activeIndex + 1
        /\ lastOp' = TickOp
        /\ UNCHANGED admin
        /\ UNCHANGED <<selectedProduct, isModalOpen, isAutoplaying, timers,
                       store, form, pending, catalog>>

\* A live timer fires: setActiveIndex(prev => (prev + 1) % images.length).
Tick ==
    \E k \in 1..Len(timers) :
        /\ activeIndex' = (activeIndex + 1) % timers[k].length
        /\ lastOp' = TickOp
        /\ UNCHANGED admin
        /\ UNCHANGED <<selectedProduct, isModalOpen, isAutoplaying, timers,
                       store, form, pending, catalog>>

CarouselNext ==
    \/ HandleOpenModal
    \/ HandleCloseModal
    \/ ModalAddToCart
    \/ GoToSlide
    \/ NextSlide
    \/ PrevSlide
    \/ ToggleAutoplay
    \/ Tick

CarouselSpec == Init /\ [][CarouselNext]_vars

\* ----------------------------------------------------------- AdminDashboard
\* What a handler holds while it awaits its request: the products, orders and
\* editingProduct of the render it was called in, and what it sent.
Call(kind, id, status, body) ==
    [kind |-> kind, id |-> id, status |-> status, body |-> body,
     products |-> adminProducts, orders |-> orders, call |-> adminCalls + 1]

\* The request of a handler; MaxCalls bounds the requests of a run.
Send(call) ==
    /\ adminCalls < MaxCalls
    /\ adminCalls' = adminCalls + 1
    /\ adminPending' = Append(adminPending, call)

Settle(k) ==
    /\ adminPending' = RemoveAt(adminPending, k)
    /\ UNCHANGED adminCalls

\* The name input of the "add product" form.
SetNewProduct ==
    \E name \in NewProductNames :
        /\ newProduct' = [newProduct EXCEPT !.name = name]
        /\ lastOp' = Op("admin", 0, 0, FALSE)
        /\ UNCHANGED <<adminProducts, orders, editingProduct, adminError,
                       isAdding, isEditing, adminPending, adminCalls>>
        /\ UNCHANGED <<store, form, pending, modal, catalog>>

\* handleAddProduct up to its await: the form's submit event, which the
\* disabled "Add Product" button withholds, and the browser too while a
\* required input (the name, the image file) is empty; with no image it
\* returns.
HandleAddProduct ==
    \E hasImage \in FileChosen :
        /\ ~isAdding
        /\ newProduct.name # ""
        /\ lastOp' = Op("admin", 0, 0, FALSE)
        /\ IF hasImage
           THEN /\ isAdding' = TRUE
                /\ adminError' = ""
                /\ Send(Call("add", 0, "", newProduct))
           ELSE /\ isAdding' = FALSE
                /\ adminError' = ImageRequired
                /\ UNCHANGED <<adminPending, adminCalls>>
        /\ UNCHANGED <<adminProducts, orders, newProduct, editingProduct, isEditing>>
        /\ UNCHANGED <<store, form, pending, modal, catalog>>

\* handleAddProduct after its await, the request fulfilled; response.data is
\* the product the server created.
AddResolved ==
    \E k \in 1..Len(adminPending) :
        /\ adminPending[k].kind = "add"
        /\ adminProducts' = Append(adminPending[k].products,
                                   AdminProduct(NumProducts + adminPending[k].call,
                                                adminPending[k].body.name))
        /\ newProduct' = [name |-> ""]
        /\ isAdding' = FALSE
        /\ Settle(k)
        /\ lastOp' = Op("addResolved", NumProducts + adminPending[k].call, 0, FALSE)
        /\ UNCHANGED <<orders, editingProduct, adminError, isEditing>>
        /\ UNCHANGED <<store, form, pending, modal, catalog>>

AddRejected ==
    \E k \in 1..Len(adminPending), message \in {AddError} :
        /\ adminPending[k].kind = "add"
        /\ adminError' = message
        /\ isAdding' = FALSE
        /\ Settle(k)
        /\ lastOp' = Op("addRejected", 0, 0, FALSE)
        /\ UNCHANGED <<adminProducts, orders, newProduct, editingProduct, isEditing>>
        /\ UNCHANGED <<store, form, pending, modal, catalog>>

\* startEditing: the "Edit" button of a listed product.
StartEditing ==
    \E i \in 1..Len(adminProducts) :
        /\ editingProduct' = adminProducts[i]
        /\ lastOp' = Op("admin", 0, 0, FALSE)
        /\ UNCHANGED <<adminProducts, orders, newProduct, adminError,
                       isAdding, isEditing, adminPending, adminCalls>>
        /\ UNCHANGED <<store, form, pending, modal, catalog>>

\* The name input of the edit form.
SetEditingProduct ==
    \E name \in ProductNames :
        /\ editingProduct # nullProduct
        /\ editingProduct' = [editingProduct EXCEPT !.name = name]
        /\ lastOp' = Op("admin", 0, 0, FALSE)
        /\ UNCHANGED <<adminProducts, orders, newProduct, adminError,
                       isAdding, isEditing, adminPending, adminCalls>>
        /\ UNCHANGED <<store, form, pending, modal, catalog>>

\* The edit form's close and "Cancel" buttons: setEditingProduct(null).
CancelEditing ==
    /\ editingProduct # nullProduct
    /\ editingProduct' = nullProduct
    /\ lastOp' = Op("admin", 0, 0, FALSE)
    /\ UNCHANGED <<adminProducts, orders, newProduct, adminError,
                   isAdding, isEditing, adminPending, adminCalls>>
    /\ UNCHANGED <<store, form, pending, modal, catalog>>

\* handleUpdateProduct up to its await: the edit form's submit event, which
\* the disabled "Save Changes" button withholds.
HandleUpdateProduct ==
    /\ editingProduct # nullProduct
    /\ ~isEditing
    /\ isEditing' = TRUE
    /\ adminError' = ""
    /\ Send(Call("update", editingProduct._id, "", editingProduct))
    /\ lastOp' = Op("admin", 0, 0, FALSE)
    /\ UNCHANGED <<adminProducts, orders, newProduct, editingProduct, isAdding>>
    /\ UNCHANGED <<store, form, pending, modal, catalog>>

\* handleUpdateProduct after its await, the request fulfilled; response.data
\* is the product as the server stored it.
UpdateResolved ==
    \E k \in 1..Len(adminPending) :
        /\ adminPending[k].kind = "update"
        /\ adminProducts' =
              [i \in 1..Len(adminPending[k].products) |->
                  IF adminPending[k].products[i]._id = adminPending[k].id
                  THEN adminPending[k].body
                  ELSE adminPending[k].products[i]]
        /\ editingProduct' = nullProduct
        /\ isEditing' = FALSE
        /\ Settle(k)
        /\ lastOp' = Op("updateResolved", adminPending[k].id, 0, FALSE)
        /\ UNCHANGED <<orders, newProduct, adminError, isAdding>>
        /\ UNCHANGED <<store, form, pending, modal, catalog>>

UpdateRejected ==
    \E k \in 1..Len(adminPending), message \in {UpdateError} :
        /\ adminPending[k].kind = "update"
        /\ adminError' = message
        /\ isEditing' = FALSE
        /\ Settle(k)
        /\ lastOp' = Op("updateRejected", 0, 0, FALSE)
        /\ UNCHANGED <<adminProducts, orders, newProduct, editingProduct, isAdding>>
        /\ UNCHANGED <<store, form, pending, modal, catalog>>

\* handleDeleteProduct up to its await: the "Delete" button of a listed
\* product, the confirmation accepted.
HandleDeleteProduct ==
    \E i \in 1..Len(adminProducts) :
        /\ Send(Call("delete", adminProducts[i]._id, "", nullProduct))
        /\ lastOp' = Op("admin", 0, 0, FALSE)
        /\ UNCHANGED <<adminProducts, orders, newProduct, editingProduct,
                       adminError, isAdding, isEditing>>
        /\ UNCHANGED <<store, form, pending, modal, catalog>>

IsNot(id, product) == product._id # id

WithoutProduct(list, id) ==
    LET Keep(product) == IsNot(id, product) IN SelectSeq(list, Keep)

DeleteResolved ==
    \E k \in 1..Len(adminPending) :
        /\ adminPending[k].kind = "delete"
        /\ adminProducts' = WithoutProduct(adminPending[k].products, adminPending[k].id)
        /\ Settle(k)
        /\ lastOp' = Op("deleteResolved", adminPending[k].id, 0, FALSE)
        /\ UNCHANGED <<orders, newProduct, editingProduct, adminError,
                       isAdding, isEditing>>
        /\ UNCHANGED <<store, form, pending, modal, catalog>>

DeleteRejected_RemovesAnyway ==
    \E k \in 1..Len(adminPending), message \in {DeleteError} :
        /\ adminPending[k].kind = "delete"
        /\ adminProducts' = WithoutProduct(adminPending[k].products, adminPending[k].id)
        /\ adminError' = message
        /\ Settle(k)
        /\ lastOp' = Op("deleteRejected", 0, 0, FALSE)
        /\ UNCHANGED <<orders, newProduct, editingProduct, isAdding, isEditing>>
        /\ UNCHANGED <<store, form, pending, modal, catalog>>

DeleteRejected ==
    \E k \in 1..Len(adminPending), message \in {DeleteError} :
        /\ adminPending[k].kind = "delete"
        /\ adminError' = message
        /\ Settle(k)
        /\ lastOp' = Op("deleteRejected", 0, 0, FALSE)
        /\ UNCHANGED <<adminProducts, orders, newProduct, editingProduct,
                       isAdding, isEditing>>
        /\ UNCHANGED <<store, form, pending, modal, catalog>>

\* updateOrderStatus up to its await: the status select of a listed order,
\* changed to another option.
UpdateOrderStatus ==
    \E i \in 1..Len(orders), status \in StatusInputs :
        /\ status # orders[i].status
        /\ Send(Call("status", orders[i]._id, status, nullProduct))
        /\ lastOp' = Op("admin", 0, 0, FALSE)
        /\ UNCHANGED <<adminProducts, orders, newProduct, editingProduct,
                       adminError, isAdding, isEditing>>
        /\ UNCHANGED <<store, form, pending, modal, catalog>>

\* updateOrderStatus after its await, the request fulfilled; response.data is
\* the order with its new status.
StatusResolved ==
    \E k \in 1..Len(adminPending) :
        /\ adminPending[k].kind = "status"
        /\ orders' =
              [i \in 1..Len(adminPending[k].orders) |->
                  IF adminPending[k].orders[i]._id = adminPending[k].id
                  THEN Order(adminPending[k].id, adminPending[k].status)
                  ELSE adminPending[k].orders[i]]
        /\ Settle(k)
        /\ lastOp' = Op("statusResolved", adminPending[k].id, 0, FALSE)
        /\ UNCHANGED <<adminProducts, newProduct, editingProduct, adminError,
                       isAdding, isEditing>>
        /\ UNCHANGED <<store, form, pending, modal, catalog>>

StatusRejected ==
    \E k \in 1..Len(adminPending) :
        /\ adminPending[k].kind = "status"
        /\ adminError' = StatusError
        /\ Settle(k)
        /\ lastOp' = Op("statusRejected", 0, 0, FALSE)
        /\ UNCHANGED <<adminProducts, orders, newProduct, editingProduct,
                       isAdding, isEditing>>
        /\ UNCHANGED <<store, form, pending, modal, catalog>>

AdminNext ==
    \/ SetNewProduct
    \/ HandleAddProduct
    \/ AddResolved
    \/ AddRejected
    \/ StartEditing
    \/ SetEditingProduct
    \/ CancelEditing
    \/ HandleUpdateProduct
    \/ UpdateResolved
    \/ UpdateRejected
    \/ HandleDeleteProduct
    \/ DeleteResolved
    \/ DeleteRejected
    \/ UpdateOrderStatus
    \/ StatusResolved
    \/ StatusRejected

AdminSpec == Init /\ [][AdminNext]_vars

\* ------------------------------------------------------------------ claims
Line(i, q) == [product |-> Product(i), quantity |-> q]

IsAddItem(op) == op.op = "addItem"
IsUpdateQuantity(op) == op.op = "updateQuantity"

\* C1: addItem(p) on a cart that has a line for p.id keeps the lines and their
\* order and adds exactly 1 to that line's quantity; on a cart without such a
\* line it keeps the lines and appends the line (p, 1) at the end.
C1_AddItemContract ==
    [][\A product \in Products :
          (IsAddItem(lastOp') /\ lastOp'.id = product.id) =>
              IF HasLine(items, product.id)
              THEN /\ Len(items') = Len(items)
                   /\ \A i \in 1..Len(items) :
                          /\ items'[i].product = items[i].product
                          /\ items'[i].quantity =
                                 IF items[i].product.id = product.id
                                 THEN items[i].quantity + 1
                                 ELSE items[i].quantity
              ELSE /\ Len(items') = Len(items) + 1
                   /\ SubSeq(items', 1, Len(items)) = items
                   /\ items'[Len(items')] = [product |-> product, quantity |-> 1]
      ]_vars

\* The same product added twice to the empty cart: one line, quantity 2.
C1_Witness ==
    /\ lastOp = Op("addItem", 1, 0, TRUE)
    /\ items = <<Line(1, 2)>>

\* C2: no two cart lines share a product identifier, and every line's
\* quantity is at least 1.
C2_CartInvariant ==
    /\ \A i, j \in 1..Len(items) :
           i # j => items[i].product.id # items[j].product.id
    /\ \A i \in 1..Len(items) : items[i].quantity >= 1

\* A negative quantity was given for a line of a two-line cart.
C2_Witness ==
    /\ lastOp = Op("updateQuantity", 1, -1, TRUE)
    /\ Len(items) = 1

LinesOtherThan(its, productId) ==
    SelectSeq(its, LAMBDA item : item.product.id # productId)

\* C3: updateQuantity(id, n) for an id that has a line sets that line's
\* quantity to n when n > 0 and removes that line (one line fewer) when
\* n <= 0; the other lines keep product, quantity and order.
C3_UpdateQuantityPresent ==
    [][\A productId \in ProductIds :
          (IsUpdateQuantity(lastOp') /\ lastOp'.id = productId
             /\ HasLine(items, productId)) =>
              IF lastOp'.n > 0
              THEN /\ Len(items') = Len(items)
                   /\ \A i \in 1..Len(items) :
                          /\ items'[i].product = items[i].product
                          /\ items'[i].quantity =
                                 IF items[i].product.id = productId
                                 THEN lastOp'.n
                                 ELSE items[i].quantity
              ELSE /\ Len(items') = Len(items) - 1
                   /\ items' = LinesOtherThan(items, productId)
      ]_vars

\* updateQuantity(1, 0) removed the line of product 1 and left product 2's.
C3_Witness ==
    /\ lastOp = Op("updateQuantity", 1, 0, TRUE)
    /\ items = <<Line(2, 2)>>

\* C4: updateQuantity(id, n) for an id that has no line leaves the lines
\* unchanged, for every n.
C4_UpdateQuantityAbsent ==
    [][\A productId \in ProductIds :
          (IsUpdateQuantity(lastOp') /\ lastOp'.id = productId
             /\ ~HasLine(items, productId)) =>
              items' = items
      ]_vars

\* updateQuantity(2, -1) was called on a cart holding only product 1.
C4_Witness ==
    /\ lastOp = Op("updateQuantity", 2, -1, FALSE)
    /\ items = <<Line(1, 2)>>

IsBlank(s) == \A i \in 1..Len(s) : s[i] = " "

\* C5: after an order submission has succeeded the cart is empty.
C5_CartEmptyAfterSuccess ==
    lastOp.op = "resolved" => items = <<>>

\* C6: after an order submission has succeeded a confirmation message is
\* shown (confirmationMessage is not null).
C6_ConfirmationAfterSuccess ==
    lastOp.op = "resolved" => confirmationMessage # null

\* C7: a submission made while fullName, phone, address or size is empty or
\* all whitespace sends no request, sets the validation error, leaves
\* submitting false and changes neither the typed fields nor the cart.
C7_BlankDetailsRejected ==
    [][(/\ lastOp'.op = "handleSubmit"
        /\ (IsBlank(fullName) \/ IsBlank(phone) \/ IsBlank(address) \/ IsBlank(size))) =>
           /\ pending' = pending
           /\ error' = ValidationError
           /\ ~submitting /\ ~submitting'
           /\ UNCHANGED <<fullName, phone, address, size, items>>
      ]_vars

\* A submission with a whitespace-only name and the other details given.
C7_Witness ==
    /\ lastOp.op = "handleSubmit"
    /\ fullName = <<" ">>
    /\ phone = <<" ", "a", " ">>
    /\ address = <<" ", "a", " ">>
    /\ error = ValidationError
    /\ pending = <<>>

\* C8: at most one order request of the form is in flight, and while one is
\* submitting is true and no submission can start.
C8_AtMostOneInFlight ==
    /\ Len(pending) <= 1
    /\ pending # <<>> => submitting /\ ~ENABLED HandleSubmit

\* A request is in flight while the checkout view shows a cart with lines.
C8_Witness ==
    /\ Len(pending) = 1
    /\ checkoutOpen
    /\ hasItems

\* C9: when the order request fails, the four fields are what they were when
\* the user submitted, the error is the submission error, submitting is
\* false, and the form accepts a new submission (it is enabled as soon as the
\* view is open on a cart with lines).
C9_FailurePreservesForm ==
    /\ [][\A k \in 1..Len(pending) :
             lastOp' = Op("rejected", 0, k, FALSE) =>
                 /\ fullName' = pending[k].fullName
                 /\ phone' = pending[k].phone
                 /\ address' = pending[k].address
                 /\ size' = pending[k].size
                 /\ error' = SubmitError
                 /\ submitting' = FALSE
         ]_vars
    /\ [](lastOp.op = "rejected" =>
             /\ ~submitting
             /\ ~(IsBlank(fullName) \/ IsBlank(phone) \/ IsBlank(address) \/ IsBlank(size))
             /\ (checkoutOpen /\ Len(items) > 0) => ENABLED HandleSubmit)

\* The request failed: the name is still as typed, spaces included.
C9_Witness ==
    /\ lastOp.op = "rejected"
    /\ fullName = <<" ", "a", " ">>
    /\ size = <<"X", "L">>
    /\ error = SubmitError
    /\ ~submitting

\* C10: when the order request succeeds, fullName, phone and address are
\* empty, size is "M", no error is shown and submitting is false.
C10_SuccessResetsForm ==
    lastOp.op = "resolved" =>
        /\ fullName = <<>>
        /\ phone = <<>>
        /\ address = <<>>
        /\ size = <<"M">>
        /\ error = null
        /\ submitting = FALSE

\* The request succeeded and the form is back at its defaults.
C10_Witness ==
    /\ lastOp.op = "resolved"
    /\ fullName = <<>>
    /\ size = <<"M">>
    /\ pending = <<>>

IsSubmissionStep(op) == op.op \in {"handleSubmit", "resolved", "rejected"}

\* C11: no step of the submission path (a rejected or accepted handleSubmit,
\* the success and the failure of the request) changes the cart store.
C11_SubmissionLeavesStore ==
    [][IsSubmissionStep(lastOp') =>
          /\ items' = items
          /\ checkoutOpen' = checkoutOpen
          /\ confirmationMessage' = confirmationMessage
      ]_vars

\* A submission has succeeded and the cart still holds two lines.
C11_Witness ==
    /\ lastOp.op = "resolved"
    /\ items = <<Line(2, 1), Line(1, 2)>>

\* C13: while the cart has no lines the checkout view shows the empty-cart
\* message and no submission can start; no request in flight carries an
\* empty items list.
C13_EmptyCartNotSubmitted ==
    /\ (checkoutOpen /\ Len(items) = 0) =>
           (EmptyCartMessageShown /\ ~ENABLED HandleSubmit)
    /\ \A k \in 1..Len(pending) : Len(pending[k].body.items) > 0

\* The view is open on an empty cart with every detail filled in.
C13_Witness ==
    /\ checkoutOpen
    /\ items = <<>>
    /\ ~submitting
    /\ fullName = <<" ", "a", " ">>
    /\ phone = <<" ", "a", " ">>
    /\ address = <<" ", "a", " ">>

\* r is s without its leading and trailing spaces.
IsTrimOf(r, s) ==
    \E i \in 1..(Len(s) + 1), j \in 0..Len(s) :
        /\ r = SubSeq(s, i, j)
        /\ \A k \in 1..(i - 1) : s[k] = " "
        /\ \A k \in (j + 1)..Len(s) : s[k] = " "
        /\ r # <<>> => (r[1] # " " /\ r[Len(r)] # " ")

\* C14: the body of the request a submission sends has exactly the fields
\* fullName, phone, address (each trimmed), size and items, and items has one
\* {productId, quantity} entry per cart line, in cart order, with the line's
\* id and quantity at that moment.
C14_RequestBody ==
    [][(lastOp'.op = "handleSubmit" /\ Len(pending') = Len(pending) + 1) =>
          LET body == pending'[Len(pending')].body IN
          /\ DOMAIN body = {"fullName", "phone", "address", "size", "items"}
          /\ IsTrimOf(body.fullName, fullName)
          /\ IsTrimOf(body.phone, phone)
          /\ IsTrimOf(body.address, address)
          /\ body.size = size
          /\ Len(body.items) = Len(items)
          /\ \A i \in 1..Len(items) :
                 body.items[i] = [productId |-> items[i].product.id,
                                  quantity |-> items[i].quantity]
      ]_vars

\* A request for the cart [(2, 1), (1, 2)] has just been sent.
C14_Witness ==
    /\ lastOp.op = "handleSubmit"
    /\ Len(pending) = 1
    /\ items = <<Line(2, 1), Line(1, 2)>>
    /\ pending[1].body.fullName = <<"a">>
    /\ pending[1].body.items = <<[productId |-> 2, quantity |-> 1],
                                 [productId |-> 1, quantity |-> 2]>>

QuantityOf(productId) ==
    IF HasLine(items, productId)
    THEN (CHOOSE item \in {items[i] : i \in 1..Len(items)} :
              item.product.id = productId).quantity
    ELSE 0

RECURSIVE SumOverProducts(_)
SumOverProducts(ids) ==
    IF ids = {} THEN 0
    ELSE LET id == CHOOSE x \in ids : TRUE IN
         Product(id).price * QuantityOf(id) + SumOverProducts(ids \ {id})

\* C15: the order total is the sum over the cart's lines of price times
\* quantity: 0 for the empty cart, 95 for [(price 40, qty 2), (price 15, qty 1)].
C15_OrderTotal ==
    /\ orderTotal = SumOverProducts(ProductIds)
    /\ items = <<>> => orderTotal = 0
    /\ items = <<Line(1, 2), Line(2, 1)>> => orderTotal = 95

\* The cart of the example: product 1 (price 40) twice, product 2 (price 15) once.
C15_Witness ==
    /\ checkoutOpen
    /\ items = <<Line(1, 2), Line(2, 1)>>
    /\ Product(1).price = 40
    /\ Product(2).price = 15

IsSettlement(op) == op.op \in {"resolved", "rejected"}

\* C12: the form enters Submitting only through handleSubmit and leaves it
\* only when the request resolves or rejects; while it is Submitting a request
\* is outstanding whose resolution and whose rejection are both handled, and
\* each of them leaves Submitting; after a failure a retry can enter
\* Submitting again.
C12_SubmittingCycle ==
    /\ [](submitting => (ENABLED OrderResolved /\ ENABLED OrderRejected))
    /\ [][(~submitting /\ submitting') => lastOp'.op = "handleSubmit"]_vars
    /\ [][(submitting /\ ~submitting') => IsSettlement(lastOp')]_vars
    /\ [][IsSettlement(lastOp') => (submitting /\ ~submitting')]_vars
    /\ []((lastOp.op = "rejected" /\ checkoutOpen /\ Len(items) > 0) =>
             ENABLED (HandleSubmit /\ submitting'))

\* A request has failed and the form is idle again, open on a cart with lines.
C12_Witness ==
    /\ lastOp.op = "rejected"
    /\ ~submitting
    /\ pending = <<>>
    /\ checkoutOpen
    /\ Len(items) > 0

SameLetter(a, b) ==
    \/ a = b
    \/ {a, b} = {"J", "j"}
    \/ {a, b} = {"A", "a"}

\* s contains t, up to letter case and to the spaces around t.
ContainsTerm(s, t) ==
    \E q \in {SubSeq(t, i, j) : i \in 1..(Len(t) + 1), j \in 0..Len(t)} :
        /\ IsTrimOf(q, t)
        /\ \E offset \in 0..(Len(s) - Len(q)) :
               \A k \in 1..Len(q) : SameLetter(s[offset + k], q[k])

Wanted(product) ==
    /\ activeCategory = "All" \/ product.category = activeCategory
    /\ ContainsTerm(product.name, searchTerm)
           \/ ContainsTerm(product.description, searchTerm)

PositionIn(seq, x) == CHOOSE i \in 1..Len(seq) : seq[i] = x

\* C19: the filtered view holds exactly the products of the list whose
\* category is the selected one (any, for "All") and whose name or
\* description contains the trimmed search term whatever the letter case, in
\* the order of the list.
C19_FilteredView ==
    /\ \A i \in 1..Len(products) :
           Wanted(products[i]) <=>
               (\E j \in 1..Len(filteredProducts) : filteredProducts[j] = products[i])
    /\ \A j \in 1..Len(filteredProducts) :
           \E i \in 1..Len(products) : products[i] = filteredProducts[j]
    /\ \A j, k \in 1..Len(filteredProducts) :
           j < k => PositionIn(products, filteredProducts[j])
                        < PositionIn(products, filteredProducts[k])

\* "Streetwear" and " JA ": the two Streetwear products that contain "ja" in
\* name or description, not the Evening Luxe product named "ja".
C19_Witness ==
    /\ activeCategory = "Streetwear"
    /\ searchTerm = <<" ", "J", "A", " ">>
    /\ Len(products) >= 3
    /\ filteredProducts = <<Listing(1), Listing(2)>>

\* C20: after a failure the failed operation can be attempted again: after a
\* failed product-list fetch a new fetch can start, and after a failed order
\* submission a new submission can start.
C20_FailureReattemptable ==
    /\ lastOp.op = "fetchRejected" => ENABLED FetchProducts
    /\ (lastOp.op = "rejected" /\ checkoutOpen /\ Len(items) > 0) =>
           ENABLED HandleSubmit

IsManualNavigation(op) == op.op \in {"nextSlide", "prevSlide", "goToSlide"}

Rotating == isModalOpen /\ selectedProduct # nullProduct /\ isAutoplaying

\* C16: while the overlay is open on a product with n > 1 images and rotation
\* is not paused, a timer tick can occur and takes the active index from i to
\* (i + 1) mod n; with 3 images, k ticks after the opening with nothing in
\* between leave the index at k mod 3 (0 -> 1 -> 2 -> 0).
C16_TickAdvances ==
    /\ [][(lastOp'.op = "tick" /\ Rotating /\ Len(images) > 1) =>
             activeIndex' = (activeIndex + 1) % Len(images)]_vars
    /\ []((Rotating /\ Len(images) > 1) => ENABLED Tick)
    /\ []((lastOp.op = "tick" /\ lastOp.had /\ lastOp.n < MaxTicks
             /\ Len(images) = 3) =>
             activeIndex = lastOp.n % 3)

\* Three ticks after opening a product with 3 images: the index is 0 again.
C16_Witness ==
    /\ lastOp = Op("tick", 0, 3, TRUE)
    /\ isModalOpen
    /\ Len(images) = 3
    /\ activeIndex = 0

\* C17: next, previous and direct selection pause the rotation; while it is
\* paused no timer tick can occur; after the play/pause button has resumed
\* it, a tick can occur again.
C17_ManualNavigationPauses ==
    /\ [][IsManualNavigation(lastOp') => ~isAutoplaying']_vars
    /\ [][lastOp'.op = "tick" => isAutoplaying]_vars
    /\ [](~isAutoplaying => ~ENABLED Tick)
    /\ []((lastOp.op = "toggleAutoplay" /\ isAutoplaying) => ENABLED Tick)

\* "next" was clicked on the first image: the second is shown, rotation is
\* paused and no timer is left.
C17_Witness ==
    /\ lastOp.op = "nextSlide"
    /\ isModalOpen
    /\ activeIndex = 1
    /\ ~isAutoplaying
    /\ timers = <<>>

\* C18: every step that opens the overlay (from closed to open) leaves the
\* active index at 0 and the rotation enabled.
C18_OpenResets ==
    [][(~isModalOpen /\ isModalOpen') =>
          (activeIndex' = 0 /\ isAutoplaying' = TRUE)]_vars

\* Product 2 is opened after the overlay was closed on the third image.
C18_Witness ==
    /\ lastOp = Op("handleOpenModal", 2, 2, TRUE)
    /\ isModalOpen
    /\ selectedProduct = Product(2)
    /\ activeIndex = 0
    /\ isAutoplaying

\* C22: there is never more than one carousel timer, and there is one only
\* while the overlay is open on a product with more than one image and the
\* rotation is not paused; the timer's callback holds that product's image
\* count.
C22_AtMostOneTimer ==
    /\ Len(timers) <= 1
    /\ timers # <<>> =>
          /\ isModalOpen
          /\ selectedProduct # nullProduct
          /\ isAutoplaying
          /\ Len(images) > 1
          /\ timers[1].length = Len(images)

\* The play/pause button has paused a rotating overlay: the timer it had is
\* gone.
C22_Witness ==
    /\ lastOp.op = "toggleAutoplay"
    /\ isModalOpen
    /\ Len(images) = 3
    /\ ~isAutoplaying
    /\ timers = <<>>

\* C24: addItem, updateQuantity and resetCart leave checkoutOpen and
\* confirmationMessage alone, and resetCart leaves no line; toggleCheckout(b)
\* leaves items and confirmationMessage alone and leaves checkoutOpen = b
\* whatever it was (so a second call with the same b changes nothing);
\* setConfirmationMessage leaves items and checkoutOpen alone.
C24_StoreFrames ==
    /\ [][lastOp'.op \in {"addItem", "updateQuantity", "resetCart"} =>
             UNCHANGED <<checkoutOpen, confirmationMessage>>]_vars
    /\ [][lastOp'.op = "resetCart" => items' = <<>>]_vars
    /\ [][lastOp'.op = "toggleCheckout" =>
             /\ UNCHANGED <<items, confirmationMessage>>
             /\ checkoutOpen' = (lastOp'.n = 1)]_vars
    /\ [][(lastOp.op = "toggleCheckout" /\ lastOp' = lastOp) =>
             UNCHANGED <<items, checkoutOpen, confirmationMessage>>]_vars
    /\ [][lastOp'.op = "setConfirmationMessage" =>
             UNCHANGED <<items, checkoutOpen>>]_vars

\* toggleCheckout(true) was called on an open checkout with a line in the
\* cart and a confirmation message set.
C24_Witness ==
    /\ lastOp = Op("toggleCheckout", 0, 1, FALSE)
    /\ checkoutOpen
    /\ items = <<Line(1, 2)>>
    /\ confirmationMessage = "Order confirmed"

\* The active index is one of the shown product's images.
IndexInRange ==
    (isModalOpen /\ selectedProduct # nullProduct /\ Len(images) >= 1) =>
        activeIndex \in 0..(Len(images) - 1)

\* A step other than picking another product while the overlay is open.
IsCarouselStep(open, op) == ~(open /\ op.op = "handleOpenModal")

\* C27: timer ticks, next, previous, the play/pause button, closing and
\* opening the closed overlay on any product each keep the active index
\* among the shown product's images, from every reachable state where it is.
C27_IndexInRange ==
    [][(IndexInRange /\ IsCarouselStep(isModalOpen, lastOp')) => IndexInRange']_vars

\* Product 2 (one image) is opened after the overlay was closed on the
\* second of product 1's three images.
C27_Witness ==
    /\ lastOp = Op("handleOpenModal", 2, 1, TRUE)
    /\ isModalOpen
    /\ selectedProduct = Product(2)
    /\ Len(images) = 1
    /\ activeIndex = 0

\* C23: a response that settles while the checkout view is closed changes
\* neither the form's fields nor its error message.
C23_LateResponseIgnored ==
    [][(IsSettlement(lastOp') /\ ~checkoutOpen) =>
          UNCHANGED <<fullName, phone, address, size, error>>]_vars

\* C26: the cart's lines do not change while a submission is in flight, and
\* when a submission succeeds the store's lines are the items its request
\* carried.
C26_LinesFrozenInFlight ==
    /\ [][submitting => items' = items]_vars
    /\ [][lastOp'.op = "resolved" =>
             pending[lastOp'.n].body.items = orderItems]_vars

IsAdminFailure(op) == op.op \in {"updateRejected", "deleteRejected", "statusRejected"}

\* C21: a failed product update, product delete or order status change
\* leaves the products list and the orders list (and the two forms) as they
\* were and sets the error message; besides it, only the "Saving..." flag of
\* the failed update is cleared.
C21_AdminFailureFrame ==
    /\ [][IsAdminFailure(lastOp') =>
             /\ UNCHANGED <<adminProducts, orders, newProduct, editingProduct, isAdding>>
             /\ adminError' \in {UpdateError, DeleteError, StatusError}]_vars
    /\ [][lastOp'.op \in {"deleteRejected", "statusRejected"} =>
             UNCHANGED isEditing]_vars

\* The delete of a product failed after the status of order 1 had been
\* changed: both lists are as they were before the delete.
C21_Witness ==
    /\ lastOp.op = "deleteRejected"
    /\ adminError = DeleteError
    /\ Len(adminProducts) = NumProducts
    /\ orders[1] = Order(1, "shipped")
    /\ adminPending = <<>>

\* C25: a successful mutation applies its result to the list as it is when
\* the response arrives, so no earlier success is undone: a status change
\* leaves the other orders, an add keeps every listed product, a delete
\* removes only its product.
C25_NoLostUpdate ==
    /\ [][lastOp'.op = "statusResolved" =>
             /\ Len(orders') = Len(orders)
             /\ \A i \in 1..Len(orders) :
                    orders[i]._id # lastOp'.id => orders'[i] = orders[i]]_vars
    /\ [][lastOp'.op = "addResolved" =>
             /\ Len(adminProducts') = Len(adminProducts) + 1
             /\ \A i \in 1..Len(adminProducts) :
                    adminProducts'[i] = adminProducts[i]]_vars
    /\ [][lastOp'.op = "deleteResolved" =>
             adminProducts' = WithoutProduct(adminProducts, lastOp'.id)]_vars

====
